---- MODULE Spec2Model ----
(***************************************************************************)
(* Model of the packet backlog tracker of TelemetryState                   *)
(* (crates/telemetry/src/state.rs): the per-path backlogs kept in          *)
(* `backlogs: DashMap<PathIdentifier, DashMap<u64, u64>>` and the three    *)
(* gauges backlog_oldest_sequence, backlog_size and                        *)
(* backlog_latest_update_timestamp that backlog_insert, backlog_remove and *)
(* update_backlog emit.                                                    *)
(*                                                                         *)
(* Two views of the same code are given.  Spec runs the three operations   *)
(* one at a time, each as one atomic action.  SpecConc runs them on        *)
(* several workers, one DashMap or gauge access per step.                  *)
(*                                                                         *)
(* Scaling.  The source's BACKLOG_RESET_THRESHOLD is 900 and its           *)
(* BACKLOG_CAPACITY is 1000.  The code uses them only in `len() > 900`     *)
(* and as an allocation hint, so the model keeps the names and scales the  *)
(* values down (ThresholdScale, CapacityGap); every formula below is       *)
(* stated in terms of the names, never of the scaled numbers.              *)
(***************************************************************************)
EXTENDS Integers, FiniteSets, Sequences, TLC

\* ------------------------------------------------------------------ bounds
\* Largest sequence number the workers report.
MaxSeq == 3
\* Largest value Time::now() returns, in seconds.
MaxTime == 1
\* Scaled value of BACKLOG_RESET_THRESHOLD (900 in the source).
ThresholdScale == 1
\* Scaled value of BACKLOG_CAPACITY - BACKLOG_RESET_THRESHOLD (100 in the source).
CapacityGap == 1

\* ------------------------------------------------------- program constants
EMPTY_BACKLOG_SYMBOL == 0
BACKLOG_RESET_THRESHOLD == ThresholdScale
BACKLOG_CAPACITY == BACKLOG_RESET_THRESHOLD + CapacityGap

\* Longest `sequences` vector handed to update_backlog: long enough for one call
\* to carry the backlog over the threshold and past the first eviction.
MaxUpdLen == BACKLOG_RESET_THRESHOLD + 2

\* ------------------------------------------------------------ input domains
\* PathIdentifier values: (chain id, channel id, port id) triples.
Paths == {"p1", "p2"}
\* seq_nr: u64.
Seqs == 0..MaxSeq
\* Time::now() as seconds since the epoch (0 also when the clock is before it).
Times == 0..MaxTime
\* A gauge series that no observe() has written yet.
NoValue == -1

VARIABLES
    backlogs,   \* DashMap<PathIdentifier, DashMap<u64, u64>>: path -> (seq -> timestamp)
    oldest,     \* backlog_oldest_sequence, last observed value per path
    size,       \* backlog_size, last observed value per path
    latest,     \* backlog_latest_update_timestamp, last observed value per path
    last,       \* history: the call completed last and the gauges it wrote
    pending,    \* history: sequences of path p1 inserted and not removed or reconciled since
    clean,      \* history: path p1 has seen only the calls the exactness property is about
    upd,        \* the update_backlog call in progress: its path and the elements still to insert
    wk,         \* SpecConc: per worker, the call in progress, its position and its locals
    calls,      \* SpecConc: the number of calls the workers have made
    due,        \* SpecConc history: the workers whose backlog_remove must find its sequence
    truth,      \* SpecConc history: the update_backlog call followed and the sequences it handed over
    now,        \* the clock: what Instant::now() returns
    in_flight_events,       \* moka Cache<String, Instant>: tracking id -> entry
    tx_latency_submitted,   \* histogram: recorded latency -> number of samples
    tx_latency_confirmed,   \* histogram: recorded latency -> number of samples
    lat,        \* history: the correlation call made last, and the begins made so far
    visible_fee_addresses,  \* DashSet<String>: the receivers whose fees are recorded
    cached_fees,            \* Mutex<Vec<Cache<String, u64>>>: one single-entry cache per fee
    poisoned,               \* the Mutex of cached_fees was held by a thread that panicked
    overflow_checks,        \* the build's overflow-checks setting, fixed when it first matters
    fee_amounts,            \* counter fee_amounts: labels -> total added
    period_fees,            \* gauge period_fees: labels -> last observed value
    fee,        \* history: the fee call made last
    broadcast_errors,       \* counter broadcast_errors: labels -> total added
    simulate_errors,        \* counter simulate_errors: labels -> total added
    err,        \* history: the error recording made last
    built       \* the build_histogram_buckets call made last: its arguments and result

\* The state of the latency correlation.
latVars == <<now, in_flight_events, tx_latency_submitted, tx_latency_confirmed, lat>>

\* The state of the fee ledger.
feeVars == <<visible_fee_addresses, cached_fees, poisoned, overflow_checks,
             fee_amounts, period_fees>>

\* The error counters.
errVars == <<broadcast_errors, simulate_errors>>

\* The state the backlog operations never touch.
nonBacklogVars == <<latVars, feeVars, fee, errVars, err, built>>

vars == <<backlogs, oldest, size, latest, last, pending, clean, upd, wk, calls, due, truth,
          now, in_flight_events, tx_latency_submitted, tx_latency_confirmed, lat,
          visible_fee_addresses, cached_fees, poisoned, overflow_checks,
          fee_amounts, period_fees, fee, broadcast_errors, simulate_errors, err, built>>

\* ------------------------------------------------------ DashMap primitives
\* DashMap::len
MapLen(m) == Cardinality(DOMAIN m)

\* DashMap::insert (overwrites the value of a key already present)
MapInsert(m, k, v) == [x \in (DOMAIN m) \cup {k} |-> IF x = k THEN v ELSE m[x]]

\* DashMap::remove
MapRemove(m, k) == [x \in (DOMAIN m) \ {k} |-> m[x]]

\* Faulty variant of MinKey: the largest key is taken for the oldest.
MinKeyLargest(m) == CHOOSE k \in DOMAIN m : \A j \in DOMAIN m : k >= j

\* path_backlog.iter().map(|v| *v.key()).min(), for a non-empty map
MinKey(m) == CHOOSE k \in DOMAIN m : \A j \in DOMAIN m : k <= j

\* The empty inner map.
EmptyMap == [x \in {} |-> 0]

\* Faulty variant of OverThreshold: the comparison is >= instead of >.
OverThresholdAtLeast(m) == MapLen(m) >= BACKLOG_RESET_THRESHOLD

\* path_backlog.len() > BACKLOG_RESET_THRESHOLD
OverThreshold(m) == MapLen(m) > BACKLOG_RESET_THRESHOLD

\* Faulty variant of EvictOldest: nothing is ever dropped.
EvictNothing(m) == m

\* Lines 994-998: the oldest entry is dropped when the map is over the threshold.
EvictOldest(m) ==
    IF OverThreshold(m) /\ DOMAIN m # {}
    THEN MapRemove(m, MinKey(m))
    ELSE m

\* Lines 1002-1008 and 1107-1115: the pair (oldest_sn, total) read back from the map.
Observed(m) ==
    IF DOMAIN m # {}
    THEN <<MinKey(m), MapLen(m)>>
    ELSE <<EMPTY_BACKLOG_SYMBOL, EMPTY_BACKLOG_SYMBOL>>

\* Faulty variant of PutBacklog: every path's entry is replaced.
PutBacklogAll(b, p, m) == [q \in (DOMAIN b) \cup {p} |-> m]

\* DashMap::insert on the outer map.
PutBacklog(b, p, m) == [q \in (DOMAIN b) \cup {p} |-> IF q = p THEN m ELSE b[q]]

\* DashMap::remove on the outer map.
DropBacklog(b, p) == [q \in (DOMAIN b) \ {p} |-> b[q]]

\* ------------------------------------- the operations, one call as a function
\* The gauges a call may write with observe().
Gauges == {"backlog_oldest_sequence", "backlog_latest_update_timestamp", "backlog_size"}

\* A state of the tracker as a record: b = backlogs, o = oldest, z = size,
\* l = latest, and e = the gauges written by observe() since the call began.
St == [b |-> backlogs, o |-> oldest, z |-> size, l |-> latest, e |-> {}]

\* backlog_insert(seq_nr = s, path p) at clock reading ts.
InsertSt(st, p, s, ts) ==
    LET m2 == IF p \in DOMAIN st.b
              THEN MapInsert(EvictOldest(st.b[p]), s, ts)
              ELSE MapInsert(EmptyMap, s, ts)
        obs == IF p \in DOMAIN st.b THEN Observed(m2) ELSE <<s, 1>>
    IN  [b |-> PutBacklog(st.b, p, m2),
         o |-> [st.o EXCEPT ![p] = obs[1]],
         l |-> [st.l EXCEPT ![p] = ts],
         z |-> [st.z EXCEPT ![p] = obs[2]],
         e |-> st.e \cup Gauges]

\* Faulty variant of RemoveSt: the timestamp gauge is written before the removal is tested.
RemoveStStampFirst(st, p, s, ts) ==
    IF p \in DOMAIN st.b /\ s \in DOMAIN st.b[p]
    THEN LET m1 == MapRemove(st.b[p], s)
             obs == Observed(m1)
         IN  [b |-> PutBacklog(st.b, p, m1),
              o |-> [st.o EXCEPT ![p] = obs[1]],
              l |-> [st.l EXCEPT ![p] = ts],
              z |-> [st.z EXCEPT ![p] = obs[2]],
              e |-> st.e \cup Gauges]
    ELSE [st EXCEPT !.l = [st.l EXCEPT ![p] = ts],
                    !.e = st.e \cup {"backlog_latest_update_timestamp"}]

\* backlog_remove(seq_nr = s, path p) at clock reading ts.
RemoveSt(st, p, s, ts) ==
    IF p \in DOMAIN st.b /\ s \in DOMAIN st.b[p]
    THEN LET m1 == MapRemove(st.b[p], s)
             obs == Observed(m1)
         IN  [b |-> PutBacklog(st.b, p, m1),
              o |-> [st.o EXCEPT ![p] = obs[1]],
              l |-> [st.l EXCEPT ![p] = ts],
              z |-> [st.z EXCEPT ![p] = obs[2]],
              e |-> st.e \cup Gauges]
    ELSE st

\* Faulty variant of RemoveAllSt: the loop stops one key short.
RECURSIVE RemoveAllStButOne(_, _, _, _)
RemoveAllStButOne(st, p, keys, ts) ==
    IF Cardinality(keys) <= 1
    THEN st
    ELSE LET k == CHOOSE x \in keys : TRUE
         IN  RemoveAllStButOne(RemoveSt(st, p, k, ts), p, keys \ {k}, ts)

\* The loop of lines 1056-1058: backlog_remove for every key collected.
RECURSIVE RemoveAllSt(_, _, _, _)
RemoveAllSt(st, p, keys, ts) ==
    IF keys = {}
    THEN st
    ELSE LET k == CHOOSE x \in keys : TRUE
         IN  RemoveAllSt(RemoveSt(st, p, k, ts), p, keys \ {k}, ts)

\* Faulty variant of UpdateEmptySt: the path's backlog is removed from the index.
UpdateEmptyStDrop(st, p, ts) == [st EXCEPT !.b = DropBacklog(st.b, p)]

\* Faulty variant of UpdateEmptySt: the timestamp gauge is written whether or not an
\* entry is removed.
UpdateEmptyStStamp(st, p, ts) ==
    LET st1 == [st EXCEPT !.l = [st.l EXCEPT ![p] = ts],
                          !.e = st.e \cup {"backlog_latest_update_timestamp"}]
    IN  IF p \in DOMAIN st1.b
        THEN RemoveAllSt(st1, p, DOMAIN st1.b[p], ts)
        ELSE st1

\* update_backlog with an empty `sequences` (lines 1048-1059); its nested
\* backlog_remove calls read the clock as ts.
UpdateEmptySt(st, p, ts) ==
    IF p \in DOMAIN st.b
    THEN RemoveAllSt(st, p, DOMAIN st.b[p], ts)
    ELSE st

\* Faulty variant of UpdateDropSt: the path's backlog is not removed before the loop.
UpdateDropStKeep(st, p) == st

\* update_backlog with a non-empty `sequences`, up to its loop (line 1061).
UpdateDropSt(st, p) == [st EXCEPT !.b = DropBacklog(st.b, p)]

\* ------------------------------------------------- the latency correlation
\* Scaled value of the time_to_idle of in_flight_events (30 minutes in the source).
IdleTtlScale == 2

\* time_to_idle and time_to_live of in_flight_events: 30 * 60 s and 60 * 60 s.
TIME_TO_IDLE == IdleTtlScale
TIME_TO_LIVE == 2 * TIME_TO_IDLE

\* The clock runs up to the end of the lifetime of an entry begun at 0.
MaxNow == TIME_TO_LIVE
Instants == 0..MaxNow

\* Largest tx_count of a call, and most samples the two histograms hold in all.
MaxTxCount == 2
MaxSamples == 2

\* tracking_id.to_string()
TrackingIds == {"t1", "t2"}

\* A histogram with no sample.
NoSamples == [v \in Instants |-> 0]

\* The number of samples in a histogram.
RECURSIVE SamplesUpTo(_, _)
SamplesUpTo(h, v) == IF v < 0 THEN 0 ELSE h[v] + SamplesUpTo(h, v - 1)
Samples(h) == SamplesUpTo(h, MaxNow)

\* No correlation call made yet, no id begun.
NoLat ==
    [op |-> "none", id |-> "t1", n |-> 0, hit |-> FALSE, latency |-> 0,
     begun |-> [i \in TrackingIds |-> NoValue],
     touched |-> [i \in TrackingIds |-> NoValue],
     again |-> [i \in TrackingIds |-> FALSE],
     sub |-> [i \in TrackingIds |-> NoValue]]

InitLat ==
    /\ now = 0
    /\ in_flight_events = [i \in {} |-> 0]
    /\ tx_latency_submitted = NoSamples
    /\ tx_latency_confirmed = NoSamples
    /\ lat = NoLat

\* ---------------------------------------------------------- the fee ledger
\* Scaled value of FEE_LIFETIME (7 days in the source).
FeeLifeScale == 2

\* const FEE_LIFETIME: Duration
FEE_LIFETIME == FeeLifeScale

\* Scaled width of u64, the type of a fee amount and of the period sum.
U64Bits == 2
U64Modulus == 2 ^ U64Bits
Amounts == 0..(U64Modulus - 1)

\* Most caches in the list of cached fees; once the lock is poisoned, one more
\* fees_amount call may pass the visibility check.
MaxFees == 2

\* chain_id.to_string(), receiver.to_string(), denom.to_string(), as sequences of
\* characters.
Chains == {<<"c">>}
Receivers == {<<"a">>, <<"b">>}
Denoms == {<<"u">>}

\* The label sets of fee_amounts and period_fees: chain, receiver, denom.
FeeLabels == Chains \X Receivers \X Denoms

\* Receivers and denoms of which some contain the separator '/', and the labels
\* built from them; the amount reported for them.
SlashReceivers == {<<"a">>, <<"a", "/", "u">>}
SlashDenoms == {<<"u">>, <<"u", "/", "u">>}
SlashLabels == Chains \X SlashReceivers \X SlashDenoms
SlashAmounts == {1}

\* format!("fee_amount:{chain_id}/{receiver}/{}", denom)
FeeKey(chain, receiver, denom) ==
    <<"fee_amount:">> \o chain \o <<"/">> \o receiver \o <<"/">> \o denom

\* No fee call made yet.
NoFee ==
    [op |-> "none", labels |-> <<<<"c">>, <<"a">>, <<"u">>>>, amount |-> 0,
     outcome |-> "none", n |-> 0, added |-> {}, records |-> <<>>]

InitFees ==
    /\ visible_fee_addresses = {}
    /\ cached_fees = <<>>
    /\ poisoned = FALSE
    /\ overflow_checks = "either"
    /\ fee_amounts = [l \in FeeLabels \cup SlashLabels |-> 0]
    /\ period_fees = [l \in FeeLabels \cup SlashLabels |-> NoValue]
    /\ fee = NoFee

\* -------------------------------------------------------- the error counters
\* Most broadcast_errors and simulate_errors calls in all.
MaxErrors == 3

\* address, error_code: u32, error_description, recoverable: bool.
Accounts == {"a1", "a2"}
ErrorCodes == 0..1
Descriptions == {"d1", "d2"}

\* u32::to_string, for the codes above.
U32ToString(c) == IF c = 0 THEN "0" ELSE "1"

\* bool::to_string
BoolToString(b) == IF b THEN "true" ELSE "false"

\* The label sets of the two counters: account, error_code or recoverable,
\* error_description.
ErrorLabels ==
    Accounts \X {U32ToString(c) : c \in ErrorCodes} \X Descriptions
RecoverableLabels ==
    Accounts \X {BoolToString(b) : b \in BOOLEAN} \X Descriptions

\* No error recorded yet.
NoErr == [op |-> "none", labels |-> <<"a1", "0", "d1">>, n |-> 0]

InitErrors ==
    /\ broadcast_errors = [l \in ErrorLabels |-> 0]
    /\ simulate_errors = [l \in RecoverableLabels |-> 0]
    /\ err = NoErr

\* ------------------------------------------------- the histogram boundaries
\* Largest range end handed to build_histogram_buckets.
MaxEnd == 9
\* Largest number of buckets handed to build_histogram_buckets.
MaxBuckets == 4
\* Scaled width of the significand of f64 (53 bits in the source): integers up to
\* 2 ^ F64Bits convert exactly.
F64Bits == 3

\* build_histogram_buckets has not been called.
NotBuilt == [start |-> 0, end |-> 0, buckets |-> 0, out |-> <<>>, fault |-> FALSE]

\* ------------------------------------------------ Spec: one call at a time
\* The sequence numbers reported on a path.  Every path runs the same code; the
\* second path is driven with fewer values to keep the product of the two
\* backlogs small.
SeqsOn(p) == IF p = "p1" THEN Seqs ELSE 1..2

\* The worker threads of SpecConc.
Workers == {"w1", "w2"}

\* A worker between two calls.
IdleWorker ==
    [pc |-> "idle", outer |-> "none", seq |-> 0, ts |-> 0, min |-> 0, o |-> 0, z |-> 0,
     left |-> 0, keys |-> {}]

\* The tracker after one whole call, run with no other call in progress.
Apply(st) ==
    /\ backlogs' = st.b
    /\ oldest' = st.o
    /\ size' = st.z
    /\ latest' = st.l
    /\ UNCHANGED <<wk, calls, due, truth, nonBacklogVars>>

\* No update_backlog call is followed.
NoTruth == [by |-> "none", S |-> {}]

\* No update_backlog call is in progress.
Idle == [path |-> "p1", left |-> 0]

Init ==
    /\ backlogs = [q \in {} |-> EmptyMap]
    /\ oldest = [p \in Paths |-> NoValue]
    /\ size = [p \in Paths |-> NoValue]
    /\ latest = [p \in Paths |-> NoValue]
    /\ last = [op |-> "none", path |-> "p1", seq |-> 0, n |-> 0, emitted |-> {}]
    /\ pending = {}
    /\ clean = TRUE
    /\ upd = Idle
    /\ wk = [w \in Workers |-> IdleWorker]
    /\ calls = 0
    /\ due = {}
    /\ truth = NoTruth
    /\ InitLat
    /\ InitFees
    /\ InitErrors
    /\ built = NotBuilt

\* The path the history variables pending and clean follow.
Watched == "p1"

\* The sequences tracked on path p (none when the path has no backlog).
Tracked(p) == IF p \in DOMAIN backlogs THEN DOMAIN backlogs[p] ELSE {}

\* clean stays TRUE while the watched path has seen backlog_insert and
\* backlog_remove only, with non-zero sequence numbers, and no backlog_insert has
\* found more than BACKLOG_RESET_THRESHOLD entries on it.
StaysClean(p, ok) == IF p = Watched THEN clean /\ ok ELSE clean

BacklogInsert(p, s, ts) ==
    /\ upd.left = 0
    /\ \E st \in {InsertSt(St, p, s, ts)} :
        /\ Apply(st)
        /\ last' = [op |-> "insert", path |-> p, seq |-> s, n |-> 0, emitted |-> st.e]
        /\ pending' = IF p = Watched THEN pending \cup {s} ELSE pending
        /\ clean' = StaysClean(p, s # 0 /\ Cardinality(Tracked(p)) <= BACKLOG_RESET_THRESHOLD)
    /\ UNCHANGED upd

BacklogRemove(p, s, ts) ==
    /\ upd.left = 0
    /\ \E st \in {RemoveSt(St, p, s, ts)} :
        /\ Apply(st)
        /\ last' = [op |-> "remove", path |-> p, seq |-> s, n |-> 0, emitted |-> st.e]
        /\ pending' = IF p = Watched THEN pending \ {s} ELSE pending
        /\ clean' = StaysClean(p, TRUE)
    /\ UNCHANGED upd

\* update_backlog(sequences = << >>, path p): the whole call.
UpdateBacklogEmpty(p, ts) ==
    /\ upd.left = 0
    /\ \E st \in {UpdateEmptySt(St, p, ts)} :
        /\ Apply(st)
        /\ last' = [op |-> "update", path |-> p, seq |-> 0, n |-> 0, emitted |-> st.e]
        /\ pending' = IF p = Watched THEN {} ELSE pending
        /\ clean' = StaysClean(p, FALSE)
    /\ UNCHANGED upd

\* update_backlog(sequences, path p) with n = sequences.len() > 0, up to its loop.
\* The elements of the vector are read by the loop, one per UpdateBacklogNext.
UpdateBacklogBegin(p, n) ==
    /\ upd.left = 0
    /\ Apply(UpdateDropSt(St, p))
    /\ last' = [op |-> "update", path |-> p, seq |-> 0, n |-> n, emitted |-> {}]
    /\ pending' = IF p = Watched THEN {} ELSE pending
    /\ clean' = StaysClean(p, FALSE)
    /\ upd' = [path |-> p, left |-> n]

\* One turn of the loop of lines 1062-1064: backlog_insert of the next element s.
UpdateBacklogNext(p, s, ts) ==
    /\ upd.left > 0 /\ upd.path = p
    /\ \E st \in {InsertSt(St, p, s, ts)} :
        /\ Apply(st)
        /\ last' = [last EXCEPT !.seq = s, !.emitted = @ \cup st.e]
    /\ pending' = IF p = Watched THEN pending \cup {s} ELSE pending
    /\ UNCHANGED clean
    /\ upd' = [upd EXCEPT !.left = @ - 1]

Next ==
    \/ \E p \in Paths : \E s \in SeqsOn(p), ts \in Times : BacklogInsert(p, s, ts)
    \/ \E p \in Paths : \E s \in SeqsOn(p), ts \in Times : BacklogRemove(p, s, ts)
    \/ \E p \in Paths, ts \in Times : UpdateBacklogEmpty(p, ts)
    \/ \E p \in Paths, n \in 1..MaxUpdLen : UpdateBacklogBegin(p, n)
    \/ \E p \in Paths : \E s \in SeqsOn(p), ts \in Times : UpdateBacklogNext(p, s, ts)

Spec == Init /\ [][Next]_vars

\* ------------------------------------ SpecConc: workers, one access per step
\* The workers share the TelemetryState; each step below is one access to a
\* DashMap or to a gauge.  The calls all name path p1.  `backlogs.get` returns a
\* Ref that keeps the outer map's shard read-locked until it is dropped;
\* `backlogs.insert` and `backlogs.remove` need the shard write-locked.

\* Calls the workers make in all.
MaxCalls == 3

ConcPath == Watched
\* The sequence numbers and the clock readings of the calls.
ConcSeqs == 1..MaxSeq
ConcTimes == {MaxTime}
\* Longest vector handed to update_backlog here: enough to fill a backlog over the threshold.
MaxConcUpdLen == BACKLOG_RESET_THRESHOLD + 1

\* Positions at which backlog_insert holds the Ref returned by backlogs.get.
InsertGuardPcs == {"ins_len", "ins_min", "ins_evict", "ins_put", "ins_obs", "ins_total"}
\* Positions at which backlog_remove holds the Ref returned by backlogs.get.
RemoveGuardPcs ==
    {"rem_del", "rem_emit_l", "rem_min", "rem_emit_o", "rem_emit_o0", "rem_len", "rem_emit_z"}

\* Faulty variant of HoldsGuard: the Ref is counted as held for the whole call, so
\* that a call asking for the write lock waits for itself.
HoldsGuardAnyCall(w) == wk[w].pc # "idle"

\* Worker w holds a read guard on the outer map: its own call's Ref, or the Ref
\* update_backlog keeps while it loops over the keys it collected.
HoldsGuard(w) ==
    \/ wk[w].pc \in InsertGuardPcs \cup RemoveGuardPcs
    \/ wk[w].outer = "update_empty" /\ wk[w].pc # "upd_get"

\* The outer map can be write-locked.
NoGuard == \A w \in Workers : ~HoldsGuard(w)

\* Worker w moves to r; the other workers stay.
Move(w, r) == wk' = [wk EXCEPT ![w] = r]

\* The workers in a backlog_remove(s) call of their own.
Removing(s) == {v \in Workers : wk[v].outer = "remove" /\ wk[v].seq = s}

\* A step of worker w that removes or reconciles nothing of other calls; a worker
\* that returns is owed nothing any more.
Step(w, r) ==
    /\ Move(w, r)
    /\ due' = IF r.pc = "idle" THEN due \ {w} ELSE due
    /\ UNCHANGED truth
Goto(w, pc) == Step(w, [wk[w] EXCEPT !.pc = pc])

\* A step inside a call leaves Spec's bookkeeping and the call count alone.
UnchangedSeq == UNCHANGED <<last, clean, upd, calls, nonBacklogVars>>
UnchangedGauges == UNCHANGED <<oldest, size, latest>>

\* A worker starts backlog_insert(s): path_uid, labels and the timestamp are computed.
CallInsert(w, s, ts) ==
    /\ wk[w].pc = "idle" /\ calls < MaxCalls
    /\ calls' = calls + 1
    /\ Step(w, [wk[w] EXCEPT !.pc = "ins_get", !.outer = "insert", !.seq = s, !.ts = ts])
    /\ UNCHANGED <<backlogs, pending>> /\ UnchangedGauges /\ UNCHANGED <<last, clean, upd, nonBacklogVars>>

\* The backlog_insert that put s in the backlog has returned, s is tracked, and no
\* backlog_insert or backlog_remove of s and no update_backlog is in progress.
Settled(s) ==
    /\ s \in pending
    /\ ConcPath \in DOMAIN backlogs /\ s \in DOMAIN backlogs[ConcPath]
    /\ \A v \in Workers :
          /\ wk[v].outer \notin {"update", "update_empty"}
          /\ wk[v].outer \in {"insert", "remove"} => wk[v].seq # s

\* A worker starts backlog_remove(s).
CallRemove(w, s, ts) ==
    /\ wk[w].pc = "idle" /\ calls < MaxCalls
    /\ calls' = calls + 1
    /\ Move(w, [wk[w] EXCEPT !.pc = "rem_get", !.outer = "remove", !.seq = s, !.ts = ts])
    /\ due' = (due \ Removing(s)) \cup (IF Settled(s) THEN {w} ELSE {})
    /\ truth' = NoTruth
    /\ pending' = pending \ {s}
    /\ UNCHANGED backlogs /\ UnchangedGauges /\ UNCHANGED <<last, clean, upd, nonBacklogVars>>

\* A worker starts update_backlog with an empty vector.
CallUpdateEmpty(w) ==
    /\ wk[w].pc = "idle" /\ calls < MaxCalls
    /\ calls' = calls + 1
    /\ Move(w, [wk[w] EXCEPT !.pc = "upd_get", !.outer = "update_empty"])
    /\ due' = {}
    /\ truth' = NoTruth
    /\ pending' = {}
    /\ UNCHANGED backlogs /\ UnchangedGauges /\ UNCHANGED <<last, clean, upd, nonBacklogVars>>

\* An update_backlog call with a vector of n elements is followed when the vector
\* is no longer than BACKLOG_RESET_THRESHOLD and the calls in progress when it
\* starts are backlog_insert calls only.
Followed(n) ==
    /\ n <= BACKLOG_RESET_THRESHOLD
    /\ \A v \in Workers : wk[v].outer \in {"none", "insert"}

\* A worker starts update_backlog with a vector of n elements, n > 0.
CallUpdate(w, n) ==
    /\ wk[w].pc = "idle" /\ calls < MaxCalls
    /\ calls' = calls + 1
    /\ Move(w, [wk[w] EXCEPT !.pc = "upd_drop", !.outer = "update", !.left = n])
    /\ due' = {}
    /\ truth' = IF Followed(n) THEN [by |-> w, S |-> {}] ELSE NoTruth
    /\ pending' = {}
    /\ UNCHANGED backlogs /\ UnchangedGauges /\ UNCHANGED <<last, clean, upd, nonBacklogVars>>

\* The call returns to its caller: to the worker loop, or to the update_backlog
\* call that made it.  A returned backlog_remove or update_backlog is a processed
\* terminal event.
\* The send a backlog_insert records counts as observed from the moment its entry
\* is in a backlog; the insertions update_backlog makes are not sends.
Sent(w) == IF wk[w].outer = "insert" THEN pending \cup {wk[w].seq} ELSE pending

InsertReturn(w) ==
    IF wk[w].outer = "update"
    THEN /\ Step(w, IF wk[w].left > 0 THEN [wk[w] EXCEPT !.pc = "upd_next"] ELSE IdleWorker)
         /\ pending' = IF wk[w].left > 0 THEN pending ELSE {}
    ELSE /\ Step(w, IdleWorker)
         /\ UNCHANGED pending

RemoveReturn(w) ==
    IF wk[w].outer = "update_empty"
    THEN /\ Step(w, IF wk[w].keys # {} THEN [wk[w] EXCEPT !.pc = "upd_rem_next"]
                    ELSE IdleWorker)
         /\ pending' = IF wk[w].keys # {} THEN pending ELSE {}
    ELSE /\ Step(w, IdleWorker)
         /\ pending' = pending \ {wk[w].seq}

\* backlog_insert: self.backlogs.get(&path_uid)
InsGet(w) ==
    /\ wk[w].pc = "ins_get"
    /\ Goto(w, IF ConcPath \in DOMAIN backlogs THEN "ins_len" ELSE "ins_new")
    /\ UNCHANGED <<backlogs, pending>> /\ UnchangedGauges /\ UnchangedSeq

\* backlog_insert: path_backlog.len() > BACKLOG_RESET_THRESHOLD
InsLen(w) ==
    /\ wk[w].pc = "ins_len"
    /\ Goto(w, IF OverThreshold(backlogs[ConcPath]) THEN "ins_min" ELSE "ins_put")
    /\ UNCHANGED <<backlogs, pending>> /\ UnchangedGauges /\ UnchangedSeq

\* backlog_insert: if let Some(min) = path_backlog.iter().map(..).min()
InsMin(w) ==
    /\ wk[w].pc = "ins_min"
    /\ Step(w, IF DOMAIN backlogs[ConcPath] # {}
               THEN [wk[w] EXCEPT !.pc = "ins_evict", !.min = MinKey(backlogs[ConcPath])]
               ELSE [wk[w] EXCEPT !.pc = "ins_put"])
    /\ UNCHANGED <<backlogs, pending>> /\ UnchangedGauges /\ UnchangedSeq

\* backlog_insert: path_backlog.remove(&min)
InsEvict(w) ==
    /\ wk[w].pc = "ins_evict"
    /\ backlogs' = PutBacklog(backlogs, ConcPath, MapRemove(backlogs[ConcPath], wk[w].min))
    /\ Move(w, [wk[w] EXCEPT !.pc = "ins_put", !.min = 0])
    /\ due' = due \ Removing(wk[w].min)
    /\ UNCHANGED truth
    /\ UNCHANGED pending /\ UnchangedGauges /\ UnchangedSeq

\* backlog_insert: path_backlog.insert(seq_nr, timestamp)
InsPut(w) ==
    /\ wk[w].pc = "ins_put"
    /\ backlogs' = PutBacklog(backlogs, ConcPath,
                              MapInsert(backlogs[ConcPath], wk[w].seq, wk[w].ts))
    /\ Goto(w, "ins_obs")
    /\ pending' = Sent(w)
    /\ UnchangedGauges /\ UnchangedSeq

\* backlog_insert: the second min(); (EMPTY_BACKLOG_SYMBOL, EMPTY_BACKLOG_SYMBOL) when
\* other workers have emptied the backlog since the insertion.
InsObs(w) ==
    /\ wk[w].pc = "ins_obs"
    /\ Step(w, IF DOMAIN backlogs[ConcPath] # {}
               THEN [wk[w] EXCEPT !.pc = "ins_total", !.o = MinKey(backlogs[ConcPath])]
               ELSE [wk[w] EXCEPT !.pc = "emit_o", !.o = EMPTY_BACKLOG_SYMBOL,
                                  !.z = EMPTY_BACKLOG_SYMBOL])
    /\ UNCHANGED <<backlogs, pending>> /\ UnchangedGauges /\ UnchangedSeq

\* backlog_insert: path_backlog.len() as u64; the Ref is dropped with the statement.
InsTotal(w) ==
    /\ wk[w].pc = "ins_total"
    /\ Step(w, [wk[w] EXCEPT !.pc = "emit_o", !.z = MapLen(backlogs[ConcPath])])
    /\ UNCHANGED <<backlogs, pending>> /\ UnchangedGauges /\ UnchangedSeq

\* backlog_insert, no backlog for the path: a new map holding seq_nr alone is put
\* in the outer map, replacing whatever is there by then.
InsNew(w) ==
    /\ wk[w].pc = "ins_new"
    /\ NoGuard
    /\ backlogs' = PutBacklog(backlogs, ConcPath, MapInsert(EmptyMap, wk[w].seq, wk[w].ts))
    /\ Step(w, [wk[w] EXCEPT !.pc = "emit_o", !.o = wk[w].seq, !.z = 1])
    /\ pending' = Sent(w)
    /\ UnchangedGauges /\ UnchangedSeq

\* backlog_insert: self.backlog_oldest_sequence.observe(oldest_sn, labels)
EmitOldest(w) ==
    /\ wk[w].pc = "emit_o"
    /\ oldest' = [oldest EXCEPT ![ConcPath] = wk[w].o]
    /\ Goto(w, "emit_l")
    /\ UNCHANGED <<backlogs, pending, size, latest>> /\ UnchangedSeq

\* backlog_insert: self.backlog_latest_update_timestamp.observe(timestamp, labels)
EmitLatest(w) ==
    /\ wk[w].pc = "emit_l"
    /\ latest' = [latest EXCEPT ![ConcPath] = wk[w].ts]
    /\ Goto(w, "emit_z")
    /\ UNCHANGED <<backlogs, pending, oldest, size>> /\ UnchangedSeq

\* backlog_insert: self.backlog_size.observe(total, labels), and the return
EmitSize(w) ==
    /\ wk[w].pc = "emit_z"
    /\ size' = [size EXCEPT ![ConcPath] = wk[w].z]
    /\ InsertReturn(w)
    /\ UNCHANGED <<backlogs, oldest, latest>> /\ UnchangedSeq

\* backlog_remove: self.backlogs.get(&path_uid)
RemGet(w) ==
    /\ wk[w].pc = "rem_get"
    /\ IF ConcPath \in DOMAIN backlogs
       THEN Goto(w, "rem_del") /\ UNCHANGED pending
       ELSE RemoveReturn(w)
    /\ UNCHANGED backlogs /\ UnchangedGauges /\ UnchangedSeq

\* backlog_remove: path_backlog.remove(&seq_nr).is_some()
RemDel(w) ==
    /\ wk[w].pc = "rem_del"
    /\ IF wk[w].seq \in DOMAIN backlogs[ConcPath]
       THEN /\ backlogs' = PutBacklog(backlogs, ConcPath,
                                      MapRemove(backlogs[ConcPath], wk[w].seq))
            /\ Goto(w, "rem_emit_l")
            /\ UNCHANGED pending
       ELSE /\ RemoveReturn(w)
            /\ UNCHANGED backlogs
    /\ UnchangedGauges /\ UnchangedSeq

\* backlog_remove: self.backlog_latest_update_timestamp.observe(timestamp, labels)
RemEmitLatest(w) ==
    /\ wk[w].pc = "rem_emit_l"
    /\ latest' = [latest EXCEPT ![ConcPath] = wk[w].ts]
    /\ Goto(w, "rem_min")
    /\ UNCHANGED <<backlogs, pending, oldest, size>> /\ UnchangedSeq

\* backlog_remove: if let Some(min_key) = path_backlog.iter().map(..).min()
RemMin(w) ==
    /\ wk[w].pc = "rem_min"
    /\ Step(w, IF DOMAIN backlogs[ConcPath] # {}
               THEN [wk[w] EXCEPT !.pc = "rem_emit_o", !.o = MinKey(backlogs[ConcPath])]
               ELSE [wk[w] EXCEPT !.pc = "rem_emit_o0", !.o = EMPTY_BACKLOG_SYMBOL,
                                  !.z = EMPTY_BACKLOG_SYMBOL])
    /\ UNCHANGED <<backlogs, pending>> /\ UnchangedGauges /\ UnchangedSeq

\* backlog_remove: self.backlog_oldest_sequence.observe(..), in either branch
RemEmitOldest(w) ==
    /\ wk[w].pc \in {"rem_emit_o", "rem_emit_o0"}
    /\ oldest' = [oldest EXCEPT ![ConcPath] = wk[w].o]
    /\ Goto(w, IF wk[w].pc = "rem_emit_o" THEN "rem_len" ELSE "rem_emit_z")
    /\ UNCHANGED <<backlogs, pending, size, latest>> /\ UnchangedSeq

\* backlog_remove: path_backlog.len() as u64
RemLen(w) ==
    /\ wk[w].pc = "rem_len"
    /\ Step(w, [wk[w] EXCEPT !.pc = "rem_emit_z", !.z = MapLen(backlogs[ConcPath])])
    /\ UNCHANGED <<backlogs, pending>> /\ UnchangedGauges /\ UnchangedSeq

\* backlog_remove: self.backlog_size.observe(..), in either branch, and the return
RemEmitSize(w) ==
    /\ wk[w].pc = "rem_emit_z"
    /\ size' = [size EXCEPT ![ConcPath] = wk[w].z]
    /\ RemoveReturn(w)
    /\ UNCHANGED <<backlogs, oldest, latest>> /\ UnchangedSeq

\* update_backlog, empty vector: self.backlogs.get(&path_uid) and the collection of
\* the current keys.  With no key to remove the call returns.
UpdGet(w) ==
    /\ wk[w].pc = "upd_get"
    /\ IF ConcPath \in DOMAIN backlogs /\ DOMAIN backlogs[ConcPath] # {}
       THEN /\ Step(w, [wk[w] EXCEPT !.pc = "upd_rem_next",
                                     !.keys = DOMAIN backlogs[ConcPath]])
            /\ UNCHANGED pending
       ELSE /\ Step(w, IdleWorker)
            /\ pending' = {}
    /\ UNCHANGED backlogs /\ UnchangedGauges /\ UnchangedSeq

\* update_backlog, empty vector: the next self.backlog_remove(*key, ..); the keys
\* come in the order the DashMap iterator gave them, which is any order.
UpdRemoveNext(w, k, ts) ==
    /\ wk[w].pc = "upd_rem_next"
    /\ k \in wk[w].keys
    /\ Step(w, [wk[w] EXCEPT !.pc = "rem_get", !.seq = k, !.ts = ts, !.keys = @ \ {k}])
    /\ UNCHANGED <<backlogs, pending>> /\ UnchangedGauges /\ UnchangedSeq

\* update_backlog, non-empty vector: self.backlogs.remove(&path_uid)
UpdDrop(w) ==
    /\ wk[w].pc = "upd_drop"
    /\ NoGuard
    /\ backlogs' = DropBacklog(backlogs, ConcPath)
    /\ Goto(w, "upd_next")
    /\ UNCHANGED pending /\ UnchangedGauges /\ UnchangedSeq

\* update_backlog, non-empty vector: the next self.backlog_insert(*key, ..)
UpdInsertNext(w, s, ts) ==
    /\ wk[w].pc = "upd_next"
    /\ Move(w, [wk[w] EXCEPT !.pc = "ins_get", !.seq = s, !.ts = ts, !.left = @ - 1])
    /\ UNCHANGED due
    /\ truth' = IF truth.by = w THEN [truth EXCEPT !.S = @ \cup {s}] ELSE truth
    /\ UNCHANGED <<backlogs, pending>> /\ UnchangedGauges /\ UnchangedSeq

NextConc ==
    \/ \E w \in Workers, s \in ConcSeqs, ts \in ConcTimes : CallInsert(w, s, ts)
    \/ \E w \in Workers, s \in ConcSeqs, ts \in ConcTimes : CallRemove(w, s, ts)
    \/ \E w \in Workers : CallUpdateEmpty(w)
    \/ \E w \in Workers, n \in 1..MaxConcUpdLen : CallUpdate(w, n)
    \/ \E w \in Workers : InsGet(w)
    \/ \E w \in Workers : InsLen(w)
    \/ \E w \in Workers : InsMin(w)
    \/ \E w \in Workers : InsEvict(w)
    \/ \E w \in Workers : InsPut(w)
    \/ \E w \in Workers : InsObs(w)
    \/ \E w \in Workers : InsTotal(w)
    \/ \E w \in Workers : InsNew(w)
    \/ \E w \in Workers : EmitOldest(w)
    \/ \E w \in Workers : EmitLatest(w)
    \/ \E w \in Workers : EmitSize(w)
    \/ \E w \in Workers : RemGet(w)
    \/ \E w \in Workers : RemDel(w)
    \/ \E w \in Workers : RemEmitLatest(w)
    \/ \E w \in Workers : RemMin(w)
    \/ \E w \in Workers : RemEmitOldest(w)
    \/ \E w \in Workers : RemLen(w)
    \/ \E w \in Workers : RemEmitSize(w)
    \/ \E w \in Workers : UpdGet(w)
    \/ \E w \in Workers, k \in ConcSeqs, ts \in ConcTimes : UpdRemoveNext(w, k, ts)
    \/ \E w \in Workers : UpdDrop(w)
    \/ \E w \in Workers, s \in ConcSeqs, ts \in ConcTimes : UpdInsertNext(w, s, ts)

SpecConc == Init /\ [][NextConc]_vars

\* The workers make backlog_insert and backlog_remove calls only.
NextInsRem ==
    \/ \E w \in Workers, s \in ConcSeqs, ts \in ConcTimes : CallInsert(w, s, ts)
    \/ \E w \in Workers, s \in ConcSeqs, ts \in ConcTimes : CallRemove(w, s, ts)
    \/ \E w \in Workers : InsGet(w)
    \/ \E w \in Workers : InsLen(w)
    \/ \E w \in Workers : InsMin(w)
    \/ \E w \in Workers : InsEvict(w)
    \/ \E w \in Workers : InsPut(w)
    \/ \E w \in Workers : InsObs(w)
    \/ \E w \in Workers : InsTotal(w)
    \/ \E w \in Workers : InsNew(w)
    \/ \E w \in Workers : EmitOldest(w)
    \/ \E w \in Workers : EmitLatest(w)
    \/ \E w \in Workers : EmitSize(w)
    \/ \E w \in Workers : RemGet(w)
    \/ \E w \in Workers : RemDel(w)
    \/ \E w \in Workers : RemEmitLatest(w)
    \/ \E w \in Workers : RemMin(w)
    \/ \E w \in Workers : RemEmitOldest(w)
    \/ \E w \in Workers : RemLen(w)
    \/ \E w \in Workers : RemEmitSize(w)

SpecInsRem == Init /\ [][NextInsRem]_vars

\* --------------------------------------------------------------- properties
\* The smallest element of a non-empty set of sequence numbers.
SetMin(S) == CHOOSE k \in S : \A j \in S : k <= j

\* The step is a backlog_insert(s) call on path p: a direct one, or one made
\* by the loop of update_backlog.  (Every action records its call in last.)
InsertStep(p, s) ==
    /\ last'.path = p /\ last'.seq = s
    /\ IF upd.left > 0 THEN last'.op = "update" ELSE last'.op = "insert"

\* The step is a direct backlog_remove(s) call on path p.
RemoveStep(p, s) ==
    /\ upd.left = 0
    /\ last'.op = "remove" /\ last'.path = p /\ last'.seq = s

\* The step is an update_backlog call on path p with the empty vector.
UpdateEmptyStep(p) ==
    /\ upd.left = 0
    /\ last'.op = "update" /\ last'.path = p /\ last'.n = 0

\* C1: while path p1 has seen only backlog_insert and backlog_remove calls, one at
\* a time, with non-zero sequence numbers, and no insert has found the path above
\* BACKLOG_RESET_THRESHOLD entries, its backlog is exactly the set of sequences
\* inserted and not yet removed, the last emitted backlog_size is the cardinality
\* of that set, and the last emitted backlog_oldest_sequence is its minimum, and
\* is 0 exactly when the set is empty.  (Nothing is emitted before the first
\* insert.)
C1_ExactBacklog ==
    (clean /\ upd.left = 0) =>
        /\ Tracked(Watched) = pending
        /\ IF size[Watched] = NoValue
           THEN pending = {} /\ oldest[Watched] = NoValue
           ELSE /\ size[Watched] = Cardinality(pending)
                /\ oldest[Watched] = (IF pending = {} THEN 0 ELSE SetMin(pending))
                /\ (oldest[Watched] = 0 <=> pending = {})

\* C1 witness: a remove has hit on the clean path and left a sequence pending
\* that is not the smallest one inserted.
C1_Witness ==
    /\ clean /\ upd.left = 0
    /\ last.op = "remove" /\ last.path = Watched /\ last.emitted # {}
    /\ pending # {}
    /\ oldest[Watched] = SetMin(pending) /\ oldest[Watched] > 1
    /\ size[Watched] = Cardinality(pending)

\* C4 as stated: after a direct backlog_insert executed one at a time, the path
\* holds at most BACKLOG_RESET_THRESHOLD entries.
C4_AtMostThreshold ==
    (upd.left = 0 /\ last.op = "insert") =>
        Cardinality(Tracked(last.path)) <= BACKLOG_RESET_THRESHOLD

\* C4 amended: a backlog_insert that finds more than BACKLOG_RESET_THRESHOLD
\* entries on the path evicts the minimum-sequence entry before inserting, and one
\* that finds at most BACKLOG_RESET_THRESHOLD entries evicts nothing; with calls
\* executed one at a time the path then holds at most BACKLOG_RESET_THRESHOLD + 1
\* entries.
C4_EvictOverThreshold ==
    [][\A p \in Paths, s \in Seqs :
          InsertStep(p, s) =>
              /\ Cardinality(Tracked(p)) > BACKLOG_RESET_THRESHOLD =>
                    Tracked(p)' = (Tracked(p) \ {SetMin(Tracked(p))}) \cup {s}
              /\ Cardinality(Tracked(p)) <= BACKLOG_RESET_THRESHOLD =>
                    Tracked(p)' = Tracked(p) \cup {s}
              /\ Cardinality(Tracked(p)') <= BACKLOG_RESET_THRESHOLD + 1]_vars

\* C4 witness: a direct insert has left the path with BACKLOG_RESET_THRESHOLD + 1
\* entries after an earlier sequence was evicted (it is pending, no longer tracked).
C4_Witness ==
    /\ upd.left = 0
    /\ last.op = "insert" /\ last.path = Watched
    /\ Cardinality(Tracked(Watched)) = BACKLOG_RESET_THRESHOLD + 1
    /\ pending \ Tracked(Watched) # {}

\* C5 as stated: backlog_insert of a sequence already tracked on the path leaves
\* the set of tracked sequences unchanged and changes no timestamp but that of s.
C5_ReinsertKeepsSet ==
    [][\A p \in Paths, s \in Seqs :
          (InsertStep(p, s) /\ s \in Tracked(p)) =>
              /\ Tracked(p)' = Tracked(p)
              /\ \A k \in Tracked(p) \ {s} : backlogs'[p][k] = backlogs[p][k]]_vars

\* C6: backlog_remove of a sequence that is not tracked on the path (or on a path
\* with no backlog) changes no backlog and no gauge, and emits nothing.
C6_RemoveMissIsNoOp ==
    [][\A p \in Paths, s \in Seqs :
          (RemoveStep(p, s) /\ s \notin Tracked(p)) =>
              /\ UNCHANGED <<backlogs, oldest, size, latest>>
              /\ last'.emitted = {}]_vars

\* C6 witness: a remove has missed on a path whose backlog is not empty.
C6_Witness ==
    /\ last.op = "remove" /\ last.emitted = {}
    /\ Tracked(last.path) # {}

\* C7 as stated: after update_backlog(p1, S) with any non-empty S, the path
\* tracks exactly the elements of S, backlog_size is their number and
\* backlog_oldest_sequence their minimum.
C7_UpdateTracksS ==
    (upd.left = 0 /\ last.op = "update" /\ last.n > 0 /\ last.path = Watched) =>
        /\ Tracked(Watched) = pending
        /\ size[Watched] = Cardinality(pending)
        /\ oldest[Watched] = SetMin(pending)

\* C7 amended: the same, for every non-empty S that has at most
\* BACKLOG_RESET_THRESHOLD distinct elements or at most
\* BACKLOG_RESET_THRESHOLD + 1 elements in all, whatever the path held before.
C7_UpdateTracksSmallS ==
    ( /\ upd.left = 0 /\ last.op = "update" /\ last.n > 0 /\ last.path = Watched
      /\ \/ Cardinality(pending) <= BACKLOG_RESET_THRESHOLD
         \/ last.n <= BACKLOG_RESET_THRESHOLD + 1 ) =>
        /\ Tracked(Watched) = pending
        /\ size[Watched] = Cardinality(pending)
        /\ oldest[Watched] = SetMin(pending)

\* C7 witness: an update with BACKLOG_RESET_THRESHOLD + 1 distinct elements has
\* completed on a path that no longer qualifies as clean.
C7_Witness ==
    /\ upd.left = 0 /\ last.op = "update" /\ last.path = Watched
    /\ last.n = BACKLOG_RESET_THRESHOLD + 1
    /\ Cardinality(pending) = BACKLOG_RESET_THRESHOLD + 1
    /\ Tracked(Watched) = pending

\* C8: update_backlog(p, []) leaves the path's backlog empty; if it was not
\* empty before, backlog_size and backlog_oldest_sequence are emitted as 0.
C8_UpdateEmptyClears ==
    [][\A p \in Paths :
          UpdateEmptyStep(p) =>
              /\ Tracked(p)' = {}
              /\ Tracked(p) # {} =>
                    /\ size'[p] = 0 /\ oldest'[p] = 0
                    /\ {"backlog_size", "backlog_oldest_sequence"} \subseteq last'.emitted]_vars

\* C8 witness: an update with the empty vector has emitted, so it found entries.
C8_Witness ==
    /\ last.op = "update" /\ last.n = 0 /\ last.emitted # {}
    /\ Tracked(last.path) = {} /\ size[last.path] = 0

\* C9: update_backlog(p, []) on a path whose backlog is empty or was never
\* created emits no gauge and changes no state.
C9_UpdateEmptyOnEmpty ==
    [][\A p \in Paths :
          (UpdateEmptyStep(p) /\ Tracked(p) = {}) =>
              /\ UNCHANGED <<backlogs, oldest, size, latest>>
              /\ last'.emitted = {}]_vars

\* C9 witness: an update with the empty vector has emitted nothing on a path
\* that has a drained backlog and an earlier timestamp.
C9_Witness ==
    /\ last.op = "update" /\ last.n = 0 /\ last.emitted = {}
    /\ last.path \in DOMAIN backlogs
    /\ latest[last.path] # NoValue

\* ---------------------------------------------------- properties of SpecConc
\* The positions of backlog_insert.
InsertPcs ==
    {"ins_get", "ins_len", "ins_min", "ins_evict", "ins_put", "ins_obs", "ins_total",
     "ins_new", "emit_o", "emit_l", "emit_z"}

\* A backlog_insert(s) call is in progress.
InsertInProgress(s) ==
    \E w \in Workers : wk[w].outer = "insert" /\ wk[w].seq = s

\* A terminal event for s is being processed: a backlog_remove(s) or an update_backlog.
TerminalInProgress(s) ==
    \E w \in Workers :
        \/ wk[w].outer \in {"update", "update_empty"}
        \/ wk[w].outer = "remove" /\ wk[w].seq = s

\* C2: whatever the workers do concurrently, no path's backlog ever holds more than
\* BACKLOG_CAPACITY entries.
C2_NeverOverCapacity ==
    \A p \in DOMAIN backlogs : MapLen(backlogs[p]) <= BACKLOG_CAPACITY

\* C3: the step of backlog_insert that evicts removes exactly one entry from the
\* path's backlog, the smallest sequence present at that moment, and no other step
\* of backlog_insert removes any entry.
C3_EvictsOnlySmallest ==
    [][\A w \in Workers :
          (wk[w].pc \in InsertPcs /\ wk'[w] # wk[w]) =>
              IF wk[w].pc = "ins_evict"
              THEN /\ Tracked(ConcPath) # {}
                   /\ Tracked(ConcPath) \ Tracked(ConcPath)' = {SetMin(Tracked(ConcPath))}
              ELSE Tracked(ConcPath) \ Tracked(ConcPath)' = {}]_vars

\* C10: every sequence put in the backlog by a backlog_insert that has returned, with
\* no backlog_remove for it and no update_backlog on the path begun since, is still
\* tracked in the path's backlog.
C10_SentIsMatchedOrTracked ==
    \A s \in pending :
        \/ s \in Tracked(ConcPath)
        \/ TerminalInProgress(s)
        \/ InsertInProgress(s)

\* Every call has returned.
AllIdle == \A w \in Workers : wk[w].pc = "idle"

\* C11: once all the concurrent backlog_insert and backlog_remove calls on a path
\* have returned, the last emitted backlog_oldest_sequence and backlog_size are the
\* minimum key (0 if empty) and the number of entries of the path's backlog.
C11_GaugesSettle ==
    (AllIdle /\ ConcPath \in DOMAIN backlogs) =>
        <<oldest[ConcPath], size[ConcPath]>> = Observed(backlogs[ConcPath])

\* The next step of the call worker w has in progress, whatever it is.
WorkerStep(w) ==
    \/ InsGet(w) \/ InsLen(w) \/ InsMin(w) \/ InsEvict(w) \/ InsPut(w) \/ InsObs(w)
    \/ InsTotal(w) \/ InsNew(w) \/ EmitOldest(w) \/ EmitLatest(w) \/ EmitSize(w)
    \/ RemGet(w) \/ RemDel(w) \/ RemEmitLatest(w) \/ RemMin(w) \/ RemEmitOldest(w)
    \/ RemLen(w) \/ RemEmitSize(w)
    \/ UpdGet(w) \/ UpdDrop(w)
    \/ \E k \in ConcSeqs, ts \in ConcTimes : UpdRemoveNext(w, k, ts)
    \/ \E s \in ConcSeqs, ts \in ConcTimes : UpdInsertNext(w, s, ts)

\* C12: a call in progress can always take its next step, wherever the calls of
\* the other workers are.
C12_NeverBlocked ==
    \A w \in Workers : wk[w].pc # "idle" => ENABLED WorkerStep(w)

\* The most steps a backlog_insert or backlog_remove call still has to take from
\* each of its positions.
PcRank ==
    [ins_get |-> 11, ins_len |-> 10, ins_min |-> 9, ins_evict |-> 8, ins_put |-> 7,
     ins_obs |-> 6, ins_total |-> 5, ins_new |-> 5, emit_o |-> 4, emit_l |-> 3,
     emit_z |-> 2, rem_get |-> 8, rem_del |-> 7, rem_emit_l |-> 6, rem_min |-> 5,
     rem_emit_o |-> 4, rem_emit_o0 |-> 4, rem_len |-> 3, rem_emit_z |-> 2,
     upd_get |-> 2, upd_drop |-> 2, upd_rem_next |-> 1, upd_next |-> 1, idle |-> 0]

\* More than the steps of one nested call and of the loop turn that makes it.
TurnRank == PcRank["ins_get"] + 2

\* A bound on the steps the call of a worker in state r still has to take: those of
\* the nested call in progress, and a full turn for each element and each key the
\* loops of update_backlog have still to visit (every key of the path before the
\* keys are collected).
Rank(r) ==
    PcRank[r.pc]
    + TurnRank * ( r.left + Cardinality(r.keys)
                   + (IF r.pc = "upd_get" THEN Cardinality(ConcSeqs) ELSE 0) )

backlogVars ==
    <<backlogs, oldest, size, latest, last, pending, clean, upd, wk, calls, due, truth>>

\* Faulty variant of CacheInsert: an entry already in the cache is kept.
CacheInsertKeep(c, id, t) ==
    [i \in (DOMAIN c) \cup {id} |->
        IF i \in DOMAIN c THEN c[i] ELSE [start |-> t, written |-> t, accessed |-> t]]

\* Cache::insert(key, value) at time t: a new entry, replacing any entry of the key.
CacheInsert(c, id, t) ==
    [i \in (DOMAIN c) \cup {id} |->
        IF i = id THEN [start |-> t, written |-> t, accessed |-> t] ELSE c[i]]

\* Faulty variant of Live: entries never expire.
LiveForever(e, t) == TRUE

\* The entry e has not expired at time t.
Live(e, t) == t - e.written < TIME_TO_LIVE /\ t - e.accessed < TIME_TO_IDLE

\* Cache::get(key) at time t finds an entry.
CacheHit(c, id, t) == id \in DOMAIN c /\ Live(c[id], t)

\* Faulty variant of CacheTouch: the get restarts the entry at the time of the read.
CacheTouchRestart(c, id, t) ==
    [c EXCEPT ![id] = [start |-> t, written |-> c[id].written, accessed |-> t]]

\* Faulty variant of CacheTouch: the get also renews the entry's lifetime.
CacheTouchRenew(c, id, t) == [c EXCEPT ![id].accessed = t, ![id].written = t]

\* The cache after a get that found the entry of id at time t: the read is noted.
CacheTouch(c, id, t) == [c EXCEPT ![id].accessed = t]

\* Faulty variant of RecordTimes: one sample per call.
RecordTimesOnce(h, latency, n) ==
    IF n = 0 THEN h ELSE [h EXCEPT ![latency] = @ + 1]

\* for _ in 0..tx_count { histogram.record(latency, labels) }
RECURSIVE RecordTimes(_, _, _)
RecordTimes(h, latency, n) ==
    IF n = 0 THEN h
    ELSE RecordTimes([h EXCEPT ![latency] = @ + 1], latency, n - 1)

\* Faulty variant of Elapsed: the time left until the entry is time_to_live old.
ElapsedToExpiry(start, t) == IF start + TIME_TO_LIVE >= t THEN start + TIME_TO_LIVE - t ELSE 0

\* start.elapsed().as_millis() as u64, read at time t: never negative.
Elapsed(start, t) == IF t >= start THEN t - start ELSE 0

\* According to the calls made so far, id was begun and has since been touched (by
\* its begin or by a lookup that found it) less than time_to_idle ago, and was
\* begun less than time_to_live ago.
ShouldFind(id) ==
    /\ lat.begun[id] # NoValue
    /\ now - lat.touched[id] < TIME_TO_IDLE
    /\ now - lat.begun[id] < TIME_TO_LIVE

\* Time passes.
Tick ==
    /\ now < MaxNow
    /\ now' = now + 1
    /\ lat' = [lat EXCEPT !.op = "tick", !.id = "t1", !.n = 0, !.hit = FALSE, !.latency = 0]
    /\ fee' = [fee EXCEPT !.op = "tick", !.labels = NoFee.labels, !.amount = 0,
                          !.outcome = "none"]
    /\ UNCHANGED <<in_flight_events, tx_latency_submitted, tx_latency_confirmed>>
    /\ UNCHANGED <<backlogVars, feeVars, errVars, err, built>>

\* received_event_batch(tracking_id)
ReceivedEventBatch(id) ==
    /\ in_flight_events' = CacheInsert(in_flight_events, id, now)
    /\ lat' = [lat EXCEPT !.op = "begin", !.id = id, !.n = 0, !.hit = FALSE, !.latency = 0,
                          !.again[id] = @ \/ (lat.begun[id] # NoValue /\ lat.begun[id] < now),
                          !.begun[id] = now, !.touched[id] = now]
    /\ UNCHANGED <<now, tx_latency_submitted, tx_latency_confirmed>>
    /\ UNCHANGED <<backlogVars, feeVars, fee, errVars, err, built>>

\* The body shared by tx_submitted and tx_confirmed: the lookup, and on a hit the
\* latency recorded tx_count times in the call's own histogram h.
Lookup(op, n, id, h) ==
    LET hit == CacheHit(in_flight_events, id, now)
        latency == IF hit THEN Elapsed(in_flight_events[id].start, now) ELSE 0
    IN  /\ Samples(tx_latency_submitted) + Samples(tx_latency_confirmed) + n <= MaxSamples
        /\ in_flight_events' = IF hit THEN CacheTouch(in_flight_events, id, now)
                                ELSE in_flight_events
        /\ h' = IF hit THEN RecordTimes(h, latency, n) ELSE h
        /\ lat' = [lat EXCEPT !.op = op, !.id = id, !.n = n, !.hit = hit,
                              !.latency = latency,
                              !.touched[id] = IF ShouldFind(id) THEN now ELSE @,
                              !.sub[id] = IF op = "submitted" /\ hit /\ n > 0 /\ latency > @
                                          THEN latency ELSE @]
        /\ UNCHANGED now
        /\ UNCHANGED <<backlogVars, feeVars, fee, errVars, err, built>>

\* tx_submitted(tx_count = n, tracking_id = id, ..)
TxSubmitted(n, id) ==
    /\ Lookup("submitted", n, id, tx_latency_submitted)
    /\ UNCHANGED tx_latency_confirmed

\* tx_confirmed(tx_count = n, tracking_id = id, ..)
TxConfirmed(n, id) ==
    /\ Lookup("confirmed", n, id, tx_latency_confirmed)
    /\ UNCHANGED tx_latency_submitted

NextLat ==
    \/ Tick
    \/ \E id \in TrackingIds : ReceivedEventBatch(id)
    \/ \E n \in 0..MaxTxCount, id \in TrackingIds : TxSubmitted(n, id)
    \/ \E n \in 0..MaxTxCount, id \in TrackingIds : TxConfirmed(n, id)

SpecLat == Init /\ [][NextLat]_vars

\* ----------------------------------------------------- properties of SpecLat
LookupOps == {"submitted", "confirmed"}

\* The step is a tx_submitted or tx_confirmed call (lat' tells which).
LookupStep == lat'.op \in LookupOps

\* The histogram h, primed hp after the step, has gained exactly n samples of value v.
Gained(h, hp, v, n) == \A x \in Instants : hp[x] = h[x] + (IF x = v THEN n ELSE 0)

\* C14: a tx_submitted (tx_confirmed) with tx_count n for an id begun and not
\* expired records exactly n samples in tx_latency_submitted
\* (tx_latency_confirmed), each the elapsed time since the begin, which is never
\* negative, and none in the other histogram; with n = 0 it records nothing.
C14_RecordsNSamples ==
    [][(LookupStep /\ ShouldFind(lat'.id)) =>
          LET elapsed == now - lat.begun[lat'.id]
          IN  /\ elapsed >= 0
              /\ lat'.latency = elapsed
              /\ IF lat'.op = "submitted"
                 THEN /\ Gained(tx_latency_submitted, tx_latency_submitted', elapsed, lat'.n)
                      /\ UNCHANGED tx_latency_confirmed
                 ELSE /\ Gained(tx_latency_confirmed, tx_latency_confirmed', elapsed, lat'.n)
                      /\ UNCHANGED tx_latency_submitted]_vars

\* C14 witness: a tx_submitted with tx_count 2 has recorded two samples of a
\* positive latency, and tx_latency_confirmed is empty.
C14_Witness ==
    /\ lat.op = "submitted" /\ lat.hit /\ lat.n = 2 /\ lat.latency > 0
    /\ tx_latency_submitted[lat.latency] = 2
    /\ Samples(tx_latency_confirmed) = 0

\* C15: a tx_submitted or tx_confirmed for an id never begun, or whose entry has
\* expired, records no sample and changes neither the cache nor any other state.
C15_MissIsSilent ==
    [][(LookupStep /\ ~ShouldFind(lat'.id)) =>
          /\ ~lat'.hit
          /\ UNCHANGED <<now, in_flight_events, tx_latency_submitted, tx_latency_confirmed>>
          /\ UNCHANGED <<backlogVars, feeVars, errVars>>]_vars

\* C15 witness: a call with tx_count 2 has missed on an entry that expired, its
\* entry still unpurged in the cache.
C15_Witness ==
    /\ lat.op \in LookupOps /\ ~lat.hit /\ lat.n = 2
    /\ lat.begun[lat.id] # NoValue
    /\ lat.id \in DOMAIN in_flight_events
    /\ Samples(tx_latency_submitted) + Samples(tx_latency_confirmed) = 0

\* C16: the cache holds one entry per id begun, whose start is the time of the most
\* recent received_event_batch for the id, and every latency recorded for the id
\* is measured from that time.
C16_BeginOverwrites ==
    /\ \A id \in TrackingIds :
          /\ id \in DOMAIN in_flight_events <=> lat.begun[id] # NoValue
          /\ id \in DOMAIN in_flight_events =>
                in_flight_events[id].start = lat.begun[id]
    /\ (lat.op \in LookupOps /\ lat.hit) => lat.latency = now - lat.begun[lat.id]

\* C16 witness: an id begun twice, at different times, has been looked up and the
\* latency recorded is the time since the second begin.
C16_Witness ==
    /\ lat.op \in LookupOps /\ lat.hit /\ lat.n > 0
    /\ lat.again[lat.id]
    /\ lat.latency = now - lat.begun[lat.id] /\ lat.latency > 0

\* C17: a lookup finds the entry exactly when less than time_to_idle has passed
\* since the entry was last touched (by its begin or by a lookup that found it) and
\* less than time_to_live since its begin; no lookup finds it time_to_live or more
\* after its begin, however recently it was touched.
C17_ExpiresIdleOrOld ==
    [][LookupStep =>
          /\ lat'.hit <=> ShouldFind(lat'.id)
          /\ lat'.hit => now - lat.begun[lat'.id] < TIME_TO_LIVE]_vars

\* C17 witness: a lookup has missed an entry touched less than time_to_idle ago,
\* because its begin is time_to_live old.
C17_Witness ==
    /\ lat.op \in LookupOps /\ ~lat.hit
    /\ lat.begun[lat.id] # NoValue
    /\ now - lat.touched[lat.id] < TIME_TO_IDLE
    /\ now - lat.begun[lat.id] >= TIME_TO_LIVE

\* C18 as stated: tx_submitted and tx_confirmed never mutate the correlation cache.
C18_ReadersNeverMutate ==
    [][LookupStep => UNCHANGED in_flight_events]_vars

\* C18 amended: tx_submitted and tx_confirmed neither remove nor add an entry and
\* change no entry's start instant or time of writing (they only note the read,
\* which restarts the idle timer of the entry found); so a submit and a later
\* confirm that both find the entry measure from the same begin.
C18_ReadersKeepStart ==
    [][LookupStep =>
          /\ DOMAIN in_flight_events' = DOMAIN in_flight_events
          /\ \A id \in DOMAIN in_flight_events :
                /\ in_flight_events'[id].start = in_flight_events[id].start
                /\ in_flight_events'[id].written = in_flight_events[id].written
                /\ id # lat'.id => in_flight_events'[id] = in_flight_events[id]
          /\ (lat'.hit /\ lat.hit /\ lat.op \in LookupOps /\ lat.id = lat'.id) =>
                lat'.latency = lat.latency]_vars

\* C18 witness: a tx_confirmed has found the entry right after a tx_submitted for
\* the same id did, some time after the begin; both samples have the same latency.
C18_Witness ==
    /\ lat.op = "confirmed" /\ lat.hit /\ lat.n = 1 /\ lat.latency > 0
    /\ tx_latency_submitted[lat.latency] = 1
    /\ tx_latency_confirmed[lat.latency] = 1

\* C34: for an id begun once, a tx_confirmed that finds the entry and records
\* samples records a latency at least as large as every latency a tx_submitted
\* processed before it has recorded for the id.
C34_ConfirmNotBeforeSubmit ==
    [][(/\ lat'.op = "confirmed" /\ lat'.hit /\ lat'.n > 0
        /\ ~lat.again[lat'.id]
        /\ lat.sub[lat'.id] # NoValue) =>
            lat'.latency >= lat.sub[lat'.id]]_vars

\* C34 witness: for an id begun once, a tx_confirmed has recorded a latency larger
\* than the one the earlier tx_submitted recorded, time having passed in between.
C34_Witness ==
    /\ lat.op = "confirmed" /\ lat.hit /\ lat.n > 0
    /\ ~lat.again[lat.id]
    /\ lat.sub[lat.id] # NoValue /\ lat.latency > lat.sub[lat.id]
    /\ tx_latency_submitted[lat.sub[lat.id]] > 0
    /\ tx_latency_confirmed[lat.latency] > 0

\* --------------------------------------------------- SpecFees: the fee ledger
\* moka::sync::Cache::builder().time_to_live(FEE_LIFETIME).time_to_idle(FEE_LIFETIME)
\* .build(), then insert(key, fee_amount) at time t: a cache of one entry.
EphemeralFee(key, amount, t) ==
    [key |-> key, amount |-> amount, written |-> t, accessed |-> t]

\* The entry of the cache e has not expired at time t.
FeeLive(e, t) == t - e.written < FEE_LIFETIME /\ t - e.accessed < FEE_LIFETIME

\* e.get(&key) returns Some(amount).
FeeFound(e, key, t) == e.key = key /\ FeeLive(e, t)

\* The sum of the amounts e.get(&key) returns over the list, as a natural number.
RECURSIVE TrueSum(_, _, _)
TrueSum(c, key, t) ==
    IF c = <<>> THEN 0
    ELSE (IF FeeFound(Head(c), key, t) THEN Head(c).amount ELSE 0) + TrueSum(Tail(c), key, t)

\* cached_fees.iter().filter_map(|e| e.get(&key)).sum() from element i on, acc being
\* the sum so far: every get that finds its entry notes the read; an addition that
\* overflows u64 panics when the build checks overflow and wraps when it does not.
RECURSIVE SumFrom(_, _, _, _, _, _)
SumFrom(c, key, t, i, acc, checked) ==
    IF i > Len(c) THEN [sum |-> acc, cache |-> c, panic |-> FALSE]
    ELSE IF ~FeeFound(c[i], key, t) THEN SumFrom(c, key, t, i + 1, acc, checked)
    ELSE LET read == [c EXCEPT ![i].accessed = t]
             next == acc + c[i].amount
         IN  IF next < U64Modulus THEN SumFrom(read, key, t, i + 1, next, checked)
             ELSE IF checked THEN [sum |-> acc, cache |-> read, panic |-> TRUE]
             ELSE SumFrom(read, key, t, i + 1, next % U64Modulus, checked)

\* The overflow-checks settings the build can have when the sum over c is taken.
Builds(c, key, t) ==
    IF TrueSum(c, key, t) < U64Modulus THEN {overflow_checks}
    ELSE IF overflow_checks = "either" THEN {"on", "off"}
    ELSE {overflow_checks}

\* The history of accepted fees after the call op: fees_amount adds its record.
Recorded(op, labels, amount) ==
    IF op = "fees_amount"
    THEN Append(fee.records, [labels |-> labels, amount |-> amount, at |-> now])
    ELSE fee.records

\* Lines 1145-1150 and 1162-1166: the sum over the list c under the lock and its
\* emission; a panic in the sum leaves the Mutex poisoned and emits nothing.
SumAndObserve(c, labels, key, op, amount, n) ==
    \E build \in Builds(c, key, now) :
        LET r == SumFrom(c, key, now, 1, 0, build = "on")
        IN  /\ cached_fees' = r.cache
            /\ poisoned' = r.panic
            /\ overflow_checks' = build
            /\ period_fees' = IF r.panic THEN period_fees
                              ELSE [period_fees EXCEPT ![labels] = r.sum]
            /\ fee' = [fee EXCEPT !.op = op, !.labels = labels, !.amount = amount,
                                  !.outcome = IF r.panic THEN "panic" ELSE "ok", !.n = n,
                                  !.records = Recorded(op, labels, amount)]

\* cached_fees.lock().unwrap() on a poisoned Mutex panics.
LockPanics(op, labels, amount, n) ==
    /\ fee' = [fee EXCEPT !.op = op, !.labels = labels, !.amount = amount,
                          !.outcome = "panic", !.n = n,
                          !.records = Recorded(op, labels, amount)]
    /\ UNCHANGED <<cached_fees, poisoned, overflow_checks, period_fees>>

\* Faulty variant of Visible: every receiver passes.
VisibleAlways(receiver) == TRUE

\* self.visible_fee_addresses.contains(&receiver.to_string())
Visible(receiver) == receiver \in visible_fee_addresses

\* fees_amount(chain_id, receiver, Coin { denom, amount })
FeesAmount(chain, receiver, denom, amount) ==
    LET labels == <<chain, receiver, denom>>
        key == FeeKey(chain, receiver, denom)
    IN  /\ IF ~Visible(receiver)
           THEN /\ fee' = [fee EXCEPT !.op = "fees_amount", !.labels = labels,
                                      !.amount = amount, !.outcome = "ignored"]
                /\ UNCHANGED feeVars
           ELSE /\ fee.n < MaxFees + (IF poisoned THEN 1 ELSE 0)
                /\ fee_amounts' = [fee_amounts EXCEPT ![labels] = @ + amount]
                /\ IF poisoned
                   THEN LockPanics("fees_amount", labels, amount, fee.n + 1)
                   ELSE SumAndObserve(Append(cached_fees, EphemeralFee(key, amount, now)),
                                      labels, key, "fees_amount", amount, fee.n + 1)
                /\ UNCHANGED visible_fee_addresses
        /\ UNCHANGED <<latVars, backlogVars, errVars, err, built>>

\* update_period_fees(chain_id, receiver, denom)
UpdatePeriodFees(chain, receiver, denom) ==
    LET labels == <<chain, receiver, denom>>
        key == FeeKey(chain, receiver, denom)
    IN  /\ IF poisoned
           THEN LockPanics("update_period_fees", labels, 0, fee.n)
           ELSE SumAndObserve(cached_fees, labels, key, "update_period_fees", 0, fee.n)
        /\ UNCHANGED <<visible_fee_addresses, fee_amounts>>
        /\ UNCHANGED <<latVars, backlogVars, errVars, err, built>>

\* add_visible_fee_address(address)
AddVisibleFeeAddress(address) ==
    /\ visible_fee_addresses' = visible_fee_addresses \cup {address}
    /\ fee' = [fee EXCEPT !.op = "add_visible_fee_address",
                          !.labels = NoFee.labels, !.amount = 0, !.outcome = "ok",
                          !.added = @ \cup {address}]
    /\ UNCHANGED <<cached_fees, poisoned, overflow_checks, fee_amounts, period_fees>>
    /\ UNCHANGED <<latVars, backlogVars, errVars, err, built>>

NextFees ==
    \/ Tick
    \/ \E address \in Receivers : AddVisibleFeeAddress(address)
    \/ \E chain \in Chains, receiver \in Receivers, denom \in Denoms, amount \in Amounts :
          FeesAmount(chain, receiver, denom, amount)
    \/ \E chain \in Chains, receiver \in Receivers, denom \in Denoms :
          UpdatePeriodFees(chain, receiver, denom)

SpecFees == Init /\ [][NextFees]_vars

\* ---------------------------------------------------- properties of SpecFees
\* The step is a fees_amount call (fee' tells its arguments).
FeesAmountStep == fee'.op = "fees_amount"

\* The period sum update_period_fees would emit for the labels l now, in a build
\* that does not check overflow.
SumNow(l) == SumFrom(cached_fees, FeeKey(l[1], l[2], l[3]), now, 1, 0, FALSE).sum

\* C19: fees_amount for a receiver in the visible set emits a period sum for the
\* key that exceeds the sum that would have been emitted just before by exactly the
\* amount, and adds exactly the amount to the key's running total.
C19_SumGrowsByAmount ==
    [][(FeesAmountStep /\ fee'.labels[2] \in fee.added) =>
          /\ period_fees'[fee'.labels] = SumNow(fee'.labels) + fee'.amount
          /\ fee_amounts'[fee'.labels] = fee_amounts[fee'.labels] + fee'.amount]_vars

\* C20: fees_amount for a receiver never passed to add_visible_fee_address changes
\* nothing, whatever the amount: the running totals, the list of cached fees and
\* every emitted period sum keep their values.
C20_HiddenReceiverIgnored ==
    [][(FeesAmountStep /\ fee'.labels[2] \notin fee.added) =>
          /\ fee'.outcome = "ignored"
          /\ UNCHANGED <<fee_amounts, cached_fees, period_fees>>
          /\ UNCHANGED <<visible_fee_addresses, poisoned, overflow_checks>>
          /\ UNCHANGED <<now, in_flight_events, tx_latency_submitted, tx_latency_confirmed>>
          /\ UNCHANGED <<backlogVars, errVars>>]_vars

\* C20 witness: the largest amount has been reported for a receiver never added,
\* while another receiver is visible and has a fee in the list; the hidden
\* receiver's total is 0 and no period sum was ever emitted for it.
C20_Witness ==
    /\ fee.op = "fees_amount" /\ fee.outcome = "ignored"
    /\ fee.amount = U64Modulus - 1
    /\ fee.labels[2] \notin fee.added
    /\ fee.added # {}
    /\ Len(cached_fees) > 0
    /\ fee_amounts[fee.labels] = 0
    /\ period_fees[fee.labels] = NoValue

\* The step is a call that computes a period sum: a fees_amount that passed the
\* visibility test, or an update_period_fees.
SumStep ==
    \/ fee'.op = "fees_amount" /\ fee'.outcome # "ignored"
    \/ fee'.op = "update_period_fees"

\* The sum of the amounts of the accepted fees h for the labels l that were made
\* less than FEE_LIFETIME before t.
RECURSIVE WindowSum(_, _, _)
WindowSum(h, l, t) ==
    IF h = <<>> THEN 0
    ELSE (IF Head(h).labels = l /\ t - Head(h).at < FEE_LIFETIME THEN Head(h).amount ELSE 0)
         + WindowSum(Tail(h), l, t)

\* C21: every period sum computed by fees_amount or update_period_fees equals the
\* sum of the amounts of exactly the accepted fees for the key made less than
\* FEE_LIFETIME ago, whatever was read or recorded in between.
C21_SumIsWindowSum ==
    [][SumStep => period_fees'[fee'.labels] = WindowSum(fee'.records, fee'.labels, now)]_vars

\* The key, amount and time of insertion of every cache of the list c, in order.
Stored(c) == [i \in 1..Len(c) |-> [key |-> c[i].key, amount |-> c[i].amount,
                                    written |-> c[i].written]]

\* C22: update_period_fees adds nothing: the list of caches keeps its length, order,
\* keys and amounts, and the running totals and the visible set keep their values;
\* it emits, for its own labels only, the u64 sum of the accepted fees for the key
\* still within FEE_LIFETIME, which is what fees_amount computes before counting
\* a new amount.
C22_UpdateAddsNothing ==
    [][fee'.op = "update_period_fees" =>
          /\ Stored(cached_fees') = Stored(cached_fees)
          /\ UNCHANGED <<fee_amounts, visible_fee_addresses>>
          /\ fee'.records = fee.records
          /\ \A l \in FeeLabels : l # fee'.labels => period_fees'[l] = period_fees[l]
          /\ fee'.outcome = "ok"
          /\ period_fees'[fee'.labels] =
                WindowSum(fee.records, fee'.labels, now) % U64Modulus]_vars

\* The list c2 is the list c1, in the same order, followed by k more caches.
Extends(c1, c2, k) ==
    /\ Len(c2) = Len(c1) + k
    /\ \A i \in 1..Len(c1) : Stored(c2)[i] = Stored(c1)[i]

\* C23: the list of caches is as long as the number of fees_amount calls made so
\* far for receivers visible at the time of the call; every such call appends
\* exactly one cache, and no other step removes, adds or reorders one.
C23_ListCountsAccepted ==
    /\ [](Len(cached_fees) = Len(fee.records))
    /\ [][IF fee'.op = "fees_amount" /\ fee'.outcome # "ignored"
          THEN Extends(cached_fees, cached_fees', 1)
          ELSE Extends(cached_fees, cached_fees', 0)]_vars

\* C24: no fee operation ever panics, and the lock of the list of cached fees is
\* never left poisoned, whatever the amounts and however many records are live.
C24_NoFatalCondition == fee.outcome # "panic" /\ ~poisoned

\* ------------------------------------------------ further properties of Spec
\* Longest `sequences` vector of the update_backlog calls compared below.
MaxCmpLen == 1

\* The vectors over the set S of length at most n.
SeqsUpTo(S, n) == UNION {[1..k -> S] : k \in 0..n}

\* The calls on path p compared below: backlog_insert and backlog_remove of s and
\* update_backlog of the vector v, at one clock reading.
CallsOn(p) ==
    [op : {"insert", "remove"}, s : SeqsOn(p), ts : {MaxTime}, v : {<<>>}]
    \cup [op : {"update"}, s : {0}, ts : {MaxTime}, v : SeqsUpTo(SeqsOn(p), MaxCmpLen)]

\* The loop of lines 1062-1064: backlog_insert for every element of v, in order.
RECURSIVE InsertAllSt(_, _, _, _)
InsertAllSt(st, p, v, ts) ==
    IF v = <<>> THEN st ELSE InsertAllSt(InsertSt(st, p, Head(v), ts), p, Tail(v), ts)

\* The tracker after the whole call c on path p.
CallSt(st, p, c) ==
    CASE c.op = "insert" -> InsertSt(st, p, c.s, c.ts)
      [] c.op = "remove" -> RemoveSt(st, p, c.s, c.ts)
      [] c.op = "update" ->
            IF c.v = <<>> THEN UpdateEmptySt(st, p, c.ts)
            ELSE InsertAllSt(UpdateDropSt(st, p), p, c.v, c.ts)

\* The backlogs and the gauges of a tracker state.
Outcome(st) == <<st.b, st.o, st.z, st.l>>

\* What the tracker holds and has emitted for path q.
PathView(b, o, z, l, q) ==
    <<IF q \in DOMAIN b THEN <<b[q]>> ELSE <<>>, o[q], z[q], l[q]>>

\* C25: a backlog_insert, backlog_remove or update_backlog step on a path leaves
\* the backlog and the gauges of every other path unchanged, and from every state
\* between calls a call on one path and a call on another give the same backlogs
\* and gauges in either order.
C25_PathsIndependent ==
    /\ [][\A q \in Paths \ {last'.path} :
            PathView(backlogs', oldest', size', latest', q)
               = PathView(backlogs, oldest, size, latest, q)]_vars
    /\ [](upd.left = 0 =>
            \A c1 \in CallsOn("p1"), c2 \in CallsOn("p2") :
               Outcome(CallSt(CallSt(St, "p1", c1), "p2", c2))
                  = Outcome(CallSt(CallSt(St, "p2", c2), "p1", c1)))

\* C25 witness: a backlog_remove on p2 has emptied its backlog (gauges 0) while
\* p1 tracks two sequences and keeps its own gauges.
C25_Witness ==
    /\ last.op = "remove" /\ last.path = "p2"
    /\ "p2" \in DOMAIN backlogs /\ backlogs["p2"] = EmptyMap /\ size["p2"] = 0
    /\ "p1" \in DOMAIN backlogs /\ Cardinality(DOMAIN backlogs["p1"]) = 2
    /\ size["p1"] = 2 /\ oldest["p1"] > 0

\* The step is the start of an update_backlog on path p with a non-empty vector.
UpdateBeginStep(p) == upd.left = 0 /\ upd'.left > 0 /\ upd'.path = p

\* The step is a backlog_insert on path p, called directly or by update_backlog's loop.
InsertOnStep(p) ==
    \/ last'.op = "insert" /\ last'.path = p
    \/ upd.left > 0 /\ upd.path = p

C32_AtMostThresholdPlusOne ==
    /\ [](\A p \in Paths : Cardinality(Tracked(p)) <= BACKLOG_RESET_THRESHOLD + 1)
    /\ [][\A p \in Paths :
             (/\ Cardinality(Tracked(p)') = BACKLOG_RESET_THRESHOLD + 1
              /\ Tracked(p)' # Tracked(p)) =>
                 \E s \in Seqs : InsertStep(p, s) /\ s \notin Tracked(p)]_vars

\* C32 witness: an update_backlog with a vector longer than
\* BACKLOG_RESET_THRESHOLD + 1 has returned and has left the path with
\* BACKLOG_RESET_THRESHOLD + 1 entries, the last element of the vector among them.
C32_Witness ==
    /\ upd.left = 0 /\ last.op = "update" /\ last.n > BACKLOG_RESET_THRESHOLD + 1
    /\ Cardinality(Tracked(last.path)) = BACKLOG_RESET_THRESHOLD + 1
    /\ last.seq \in Tracked(last.path)

\* C36: the visible set only grows; a fee reported for a receiver before any
\* add_visible_fee_address for it leaves the running totals and the list of cached
\* fees as they were, so that no later sum can count it; a fee reported for a
\* receiver after its address was added is always recorded: its amount is added to
\* the running total and a cache holding it is appended to the list.
C36_VisibilityOneWay ==
    [][/\ visible_fee_addresses \subseteq visible_fee_addresses'
       /\ (FeesAmountStep /\ fee'.labels[2] \notin fee.added) =>
              UNCHANGED <<fee_amounts, cached_fees, period_fees>>
       /\ (FeesAmountStep /\ fee'.labels[2] \in fee.added) =>
              /\ fee_amounts'[fee'.labels] = fee_amounts[fee'.labels] + fee'.amount
              /\ Len(cached_fees') = Len(cached_fees) + 1
              /\ cached_fees'[Len(cached_fees')].amount = fee'.amount
              /\ cached_fees'[Len(cached_fees')].key =
                    FeeKey(fee'.labels[1], fee'.labels[2], fee'.labels[3])]_vars

\* ----------------------------- SpecKeys: fees whose labels hold the separator
NextKeys ==
    \/ Tick
    \/ \E address \in SlashReceivers : AddVisibleFeeAddress(address)
    \/ \E chain \in Chains, receiver \in SlashReceivers, denom \in SlashDenoms,
           amount \in SlashAmounts :
          FeesAmount(chain, receiver, denom, amount)
    \/ \E chain \in Chains, receiver \in SlashReceivers, denom \in SlashDenoms :
          UpdatePeriodFees(chain, receiver, denom)

SpecKeys == Init /\ [][NextKeys]_vars

\* C35: a fees_amount call leaves the windowed sum of every other (chain, receiver,
\* denom) triple as it was, also when a receiver or a denom contains '/' (distinct
\* triples never share a ledger key).
C35_KeysIndependent ==
    [][FeesAmountStep =>
          \A l \in SlashLabels : (l # fee'.labels) => (SumNow(l)' = SumNow(l))]_vars

\* -------------------------------------------- further properties of SpecConc
\* C26: a backlog_remove(s) that begins after the backlog_insert(s) has returned,
\* with s tracked and no other remove of s, update_backlog or eviction of s before
\* or during it, finds the path's backlog and removes s from it, whatever the other
\* workers do meanwhile.
C26_RemoveFindsInserted ==
    [][\A w \in due :
          (wk'[w] # wk[w] /\ wk[w].pc \in {"rem_get", "rem_del"}) =>
              IF wk[w].pc = "rem_get"
              THEN wk'[w].pc = "rem_del"
              ELSE /\ wk'[w].pc = "rem_emit_l"
                   /\ wk[w].seq \in Tracked(ConcPath)
                   /\ wk[w].seq \notin Tracked(ConcPath)']_vars

\* C33: with sequence 0 never inserted, whenever no call is in progress on a path
\* whose gauges have been written, the last emitted backlog_size is 0 exactly when
\* the last emitted backlog_oldest_sequence is 0, also after backlog_insert and
\* backlog_remove calls that overlapped.
C33_OldestSizeCoherent ==
    (AllIdle /\ oldest[ConcPath] # NoValue /\ size[ConcPath] # NoValue) =>
        (size[ConcPath] = 0 <=> oldest[ConcPath] = EMPTY_BACKLOG_SYMBOL)

\* C31: once every call has returned, every sequence of the vector handed to an
\* update_backlog call is tracked in the path's backlog, when the vector is not
\* longer than BACKLOG_RESET_THRESHOLD and the only calls in progress since the
\* update_backlog call started were backlog_insert calls of other workers.
C31_ReconciledIsTracked ==
    (AllIdle /\ truth.by # "none") => truth.S \subseteq Tracked(ConcPath)

\* C30: when two backlog_insert calls with different sequences are the only calls
\* made on a path that had no backlog, overlapping or not, then once both have
\* returned the path's backlog contains both sequences.
C30_NoLostInsertOnNewPath ==
    (AllIdle /\ calls = 2 /\ Cardinality(pending) = 2) =>
        (ConcPath \in DOMAIN backlogs /\ pending \subseteq DOMAIN backlogs[ConcPath])

\* ------------------------------------------------ SpecErr: the error counters
\* BroadcastError::new(error_code, error_description): the record of the two fields.
BroadcastErrorNew(code, description) == [code |-> code, description |-> description]

\* Faulty variant of CounterAdd: the value is added to every series of the account.
CounterAddAccount(c, labels, n) ==
    [l \in DOMAIN c |-> IF l[1] = labels[1] THEN c[l] + n ELSE c[l]]

\* Counter::add(n, labels)
CounterAdd(c, labels, n) == [c EXCEPT ![labels] = @ + n]

\* The labels built by broadcast_errors (lines 1180-1184).
BroadcastLabels(address, code, description) ==
    LET broadcast_error == BroadcastErrorNew(code, description)
    IN  <<address, U32ToString(broadcast_error.code), broadcast_error.description>>

\* The labels built by simulate_errors (lines 1192-1196).
SimulateLabels(address, recoverable, description) ==
    <<address, BoolToString(recoverable), description>>

\* broadcast_errors(address, error_code, error_description)
BroadcastErrors(address, code, description) ==
    /\ err.n < MaxErrors
    /\ broadcast_errors' =
          CounterAdd(broadcast_errors, BroadcastLabels(address, code, description), 1)
    /\ err' = [op |-> "broadcast_errors",
               labels |-> <<address, U32ToString(code), description>>, n |-> err.n + 1]
    /\ UNCHANGED <<simulate_errors, latVars, backlogVars, feeVars, fee, built>>

\* simulate_errors(address, recoverable, error_description)
SimulateErrors(address, recoverable, description) ==
    /\ err.n < MaxErrors
    /\ simulate_errors' =
          CounterAdd(simulate_errors, SimulateLabels(address, recoverable, description), 1)
    /\ err' = [op |-> "simulate_errors",
               labels |-> <<address, BoolToString(recoverable), description>>, n |-> err.n + 1]
    /\ UNCHANGED <<broadcast_errors, latVars, backlogVars, feeVars, fee, built>>

NextErr ==
    \/ \E address \in Accounts, code \in ErrorCodes, description \in Descriptions :
          BroadcastErrors(address, code, description)
    \/ \E address \in Accounts, recoverable \in BOOLEAN, description \in Descriptions :
          SimulateErrors(address, recoverable, description)

SpecErr == Init /\ [][NextErr]_vars

\* ----------------------------------------------------- properties of SpecErr
\* The counter cp is the counter c with 1 added to the series l and no other change.
OneMore(c, cp, l) ==
    /\ DOMAIN cp = DOMAIN c
    /\ \A k \in DOMAIN c : cp[k] = c[k] + (IF k = l THEN 1 ELSE 0)

AsF64(x) ==
    IF x <= 2 ^ F64Bits \/ x % 2 = 0 THEN x
    ELSE IF ((x - 1) \div 2) % 2 = 0 THEN x - 1 ELSE x + 1

\* let step = (end - start) / buckets;
\* (0..=buckets).map(|i| (start + i * step) as f64).collect()
\* The subtraction underflows when end < start and the division faults when
\* buckets = 0; start + i * step never exceeds end.
build_histogram_buckets(start, end, buckets) ==
    IF end < start \/ buckets = 0
    THEN [out |-> <<>>, fault |-> TRUE]
    ELSE LET step == (end - start) \div buckets
         IN  [out |-> [k \in 1..(buckets + 1) |-> AsF64(start + (k - 1) * step)],
              fault |-> FALSE]

\* TelemetryState::new builds the boundaries of a latency histogram from its range
\* and its number of buckets.
BuildBuckets(start, end, buckets) ==
    /\ built' = [start |-> start, end |-> end, buckets |-> buckets,
                 out |-> build_histogram_buckets(start, end, buckets).out,
                 fault |-> build_histogram_buckets(start, end, buckets).fault]
    /\ UNCHANGED <<backlogVars, latVars, feeVars, fee, errVars, err>>

NextBuckets ==
    \E start \in 0..(MaxEnd - 1), buckets \in 1..MaxBuckets :
        \E end \in (start + 1)..MaxEnd : BuildBuckets(start, end, buckets)

SpecBuckets == Init /\ [][NextBuckets]_vars

\* ------------------------------------------------- properties of SpecBuckets
\* C37: for 0 <= start < end and buckets >= 1, build_histogram_buckets returns
\* without fault buckets + 1 boundaries, strictly increasing and equally spaced,
\* the first equal to start and the last equal to end.
C37_BucketsCoverRange ==
    built.buckets > 0 =>
        /\ ~built.fault
        /\ Len(built.out) = built.buckets + 1
        /\ \A k \in 1..built.buckets : built.out[k] < built.out[k + 1]
        /\ \A k \in 2..built.buckets :
              built.out[k + 1] - built.out[k] = built.out[k] - built.out[k - 1]
        /\ built.out[1] = built.start
        /\ built.out[Len(built.out)] = built.end

====
